---------------------------- MODULE Spec2Model ----------------------------
(***************************************************************************)
(* Link-library: the HTTP API of server.js over its two PostgreSQL tables. *)
(*                                                                         *)
(* Every route handler issues exactly one SQL statement (pool.query).      *)
(* Before the statement a handler reads only its own request, after it the *)
(* handler only builds the response, and PostgreSQL executes a single      *)
(* statement atomically.  Concurrent requests are therefore the sequences  *)
(* of their statements, and each handler is one action, taken at the       *)
(* instant its statement executes.                                         *)
(*                                                                         *)
(* Text whose characters the program inspects is a sequence of one-        *)
(* character strings (created: ORDER BY; tags: JSON text); text that is    *)
(* only stored and compared for equality is a TLA+ string.  A JSON object  *)
(* is a record; a key the client omitted is a field the record lacks.      *)
(*                                                                         *)
(* The database server itself does not fail: a statement fails only for a  *)
(* relation that does not exist yet or for a violated constraint.  The     *)
(* SIGINT handler ends the process and is not part of the model.           *)
(***************************************************************************)
EXTENDS Integers, Sequences, FiniteSets, Bags, TLC

VARIABLES
    tables,     \* the relations that exist in the database
    links,      \* rows of table links
    folders,    \* rows of table folders: a bag of names (the serial id is never read)
    initPc,     \* position of initDatabase()
    resp,       \* the response the last handled request was answered with
    sentTags    \* history: per link id, the tags list the client last wrote

vars == <<tables, links, folders, initPc, resp, sentTags>>

-----------------------------------------------------------------------------
(* JavaScript values *)

\* A key of the request body the client sent.
Has(body, f) == f \in DOMAIN body

\* !body[f] is false: present and not the empty string.
Truthy(body, f) == Has(body, f) /\ Len(body[f]) > 0

\* node-postgres sends an undefined parameter as SQL NULL.
Null == "<NULL>"

\* Mutant of OrEmpty: the field passed on as it came, undefined becoming NULL.
OrEmptyRaw(body, f) == IF Has(body, f) THEN body[f] ELSE Null

\* body[f] || '' for notes and folder.
OrEmpty(body, f) == IF Truthy(body, f) THEN body[f] ELSE ""

\* tags || [] ; an empty array is truthy, only a missing key gives [].
OrNoTags(body) == IF Has(body, "tags") THEN body.tags ELSE <<>>

UrlParam(body) == IF Has(body, "url") THEN body.url ELSE Null

-----------------------------------------------------------------------------
(* JSON text of a list of strings *)

\* Mutant of EscapeChars: the characters copied without escaping.
EscapeCharsNone(s) == s

\* JSON.stringify of one string: quotes around it, '"' and '\' escaped.
RECURSIVE EscapeChars(_)
EscapeChars(s) ==
    IF s = <<>> THEN <<>>
    ELSE (IF Head(s) \in {"\"", "\\"} THEN <<"\\", Head(s)>> ELSE <<Head(s)>>)
         \o EscapeChars(Tail(s))

Quote(s) == <<"\"">> \o EscapeChars(s) \o <<"\"">>

RECURSIVE JoinQuoted(_)
JoinQuoted(list) ==
    IF list = <<>> THEN <<>>
    ELSE IF Len(list) = 1 THEN Quote(list[1])
    ELSE Quote(list[1]) \o <<",">> \o JoinQuoted(Tail(list))

\* JSON.stringify(tags) for an array of strings.
JSONstringify(list) == <<"[">> \o JoinQuoted(list) \o <<"]">>

\* The parser's position after the string literal that opens at text[i] = '"':
\* <<the string, the index after its closing quote>>.
RECURSIVE ParseString(_, _, _)
ParseString(text, i, acc) ==
    IF i > Len(text) THEN <<acc, i>>
    ELSE IF text[i] = "\"" THEN <<acc, i + 1>>
    ELSE IF text[i] = "\\" /\ i < Len(text)
         THEN ParseString(text, i + 2, Append(acc, text[i + 1]))
    ELSE ParseString(text, i + 1, Append(acc, text[i]))

\* The elements of the array from text[i] on, up to its closing bracket.
RECURSIVE ParseElements(_, _, _)
ParseElements(text, i, acc) ==
    IF i > Len(text) \/ text[i] = "]" THEN acc
    ELSE IF text[i] = "," THEN ParseElements(text, i + 1, acc)
    ELSE IF text[i] = "\""
         THEN LET r == ParseString(text, i + 1, <<>>)
              IN  ParseElements(text, r[2], Append(acc, r[1]))
    ELSE ParseElements(text, i + 1, acc)

\* JSON.parse of the text of an array of strings.
JSONparse(text) == ParseElements(text, 2, <<>>)

\* row.tags ? JSON.parse(row.tags) : []
ReadTags(row) == IF Len(row.tags) = 0 THEN <<>> ELSE JSONparse(row.tags)


-----------------------------------------------------------------------------
(* Text ordering *)

\* The characters of the modelled text values, in code point order.
Alphabet == <<"0", "1", "2", "f", "g">>
CharCode(c) == CHOOSE i \in 1..Len(Alphabet) : Alphabet[i] = c

\* Mutant of TextLess: the texts compared as the numbers their digits spell.
RECURSIVE DigitsValue(_)
DigitsValue(a) ==
    IF a = <<>> THEN 0
    ELSE DigitsValue(SubSeq(a, 1, Len(a) - 1)) * 10 + (CharCode(a[Len(a)]) - 1)
TextLessNumeric(a, b) == DigitsValue(a) < DigitsValue(b)

\* a < b as PostgreSQL compares TEXT (code point order, a prefix first: the
\* C collation, with which every collation agrees on digits and on lower-case
\* letters among themselves).
RECURSIVE TextLess(_, _)
TextLess(a, b) ==
    IF a = <<>> THEN b # <<>>
    ELSE IF b = <<>> THEN FALSE
    ELSE IF Head(a) = Head(b) THEN TextLess(Tail(a), Tail(b))
    ELSE CharCode(Head(a)) < CharCode(Head(b))

\* The orders in which a SELECT may return the rows of a set.
RowOrders(S) ==
    {s \in [1..Cardinality(S) -> S] : \A i, j \in DOMAIN s : i # j => s[i] # s[j]}

-----------------------------------------------------------------------------
(* The database: one statement each, as PostgreSQL executes it *)

UndefinedTable   == "42P01"   \* relation does not exist
UniqueViolation  == "23505"
NotNullViolation == "23502"
NoError          == "ok"

\* CREATE TABLE IF NOT EXISTS t
CreateTableIfNotExists(t) == tables \cup {t}

\* Mutant of InsertLink: no primary key on id.
InsertLinkNoKey(row) ==
    IF "links" \notin tables THEN [err |-> UndefinedTable, rows |-> links]
    ELSE IF row.url = Null THEN [err |-> NotNullViolation, rows |-> links]
    ELSE [err |-> NoError, rows |-> links \cup {row}]

\* INSERT INTO links (id, url, notes, folder, tags, created) VALUES (...)
\* id TEXT PRIMARY KEY, url TEXT NOT NULL.
InsertLink(row) ==
    IF "links" \notin tables THEN [err |-> UndefinedTable, rows |-> links]
    ELSE IF row.url = Null THEN [err |-> NotNullViolation, rows |-> links]
    ELSE IF \E r \in links : r.id = row.id
         THEN [err |-> UniqueViolation, rows |-> links]
    ELSE [err |-> NoError, rows |-> links \cup {row}]

\* Mutant of UpdateLink: folder left out of the SET clause.
UpdateLinkKeepsFolder(url, notes, folder, tagsJson, id) ==
    LET matched == {r \in links : r.id = id}
        written == {[r EXCEPT !.url = url, !.notes = notes, !.tags = tagsJson] :
                        r \in matched}
    IN  IF "links" \notin tables
        THEN [err |-> UndefinedTable, rowCount |-> 0, rows |-> links]
        ELSE IF matched # {} /\ url = Null
        THEN [err |-> NotNullViolation, rowCount |-> 0, rows |-> links]
        ELSE [err |-> NoError, rowCount |-> Cardinality(matched),
              rows |-> (links \ matched) \cup written]

\* UPDATE links SET url = $1, notes = $2, folder = $3, tags = $4 WHERE id = $5
\* The NOT NULL constraint is checked on each row the statement writes.
UpdateLink(url, notes, folder, tagsJson, id) ==
    LET matched == {r \in links : r.id = id}
        written == {[r EXCEPT !.url = url, !.notes = notes,
                              !.folder = folder, !.tags = tagsJson] : r \in matched}
    IN  IF "links" \notin tables
        THEN [err |-> UndefinedTable, rowCount |-> 0, rows |-> links]
        ELSE IF matched # {} /\ url = Null
        THEN [err |-> NotNullViolation, rowCount |-> 0, rows |-> links]
        ELSE [err |-> NoError, rowCount |-> Cardinality(matched),
              rows |-> (links \ matched) \cup written]

\* DELETE FROM links WHERE id = $1
DeleteLinkRow(id) ==
    LET matched == {r \in links : r.id = id}
    IN  IF "links" \notin tables
        THEN [err |-> UndefinedTable, rowCount |-> 0, rows |-> links]
        ELSE [err |-> NoError, rowCount |-> Cardinality(matched),
              rows |-> links \ matched]

\* SELECT * FROM links WHERE id = $1
SelectLink(rows, id) == {r \in rows : r.id = id}

\* SELECT * FROM links ORDER BY created DESC: every order of the rows in which
\* no row precedes one with a greater created (ties in any order).
SelectLinksOrdered(rows) ==
    {s \in RowOrders(rows) :
        \A i \in 1..(Len(s) - 1) : ~TextLess(s[i].created, s[i + 1].created)}

\* INSERT INTO folders (name) VALUES ($1) ; name TEXT UNIQUE NOT NULL.
InsertFolder(name) ==
    IF "folders" \notin tables THEN [err |-> UndefinedTable, rows |-> folders]
    ELSE IF BagIn(name, folders) THEN [err |-> UniqueViolation, rows |-> folders]
    ELSE [err |-> NoError, rows |-> folders (+) SetToBag({name})]

\* SELECT name FROM folders ORDER BY name
SelectFolderNames ==
    {s \in [1..BagCardinality(folders) -> BagToSet(folders)] :
        /\ \A n \in BagToSet(folders) :
              Cardinality({i \in DOMAIN s : s[i] = n}) = CopiesIn(n, folders)
        /\ \A i \in 1..(Len(s) - 1) : ~TextLess(s[i + 1], s[i])}


-----------------------------------------------------------------------------
(* The route handlers: the response and the rows a request leaves behind *)

\* res.status(status).json(body).  A body is a JSON object, or a JSON array held
\* in the one field `array`.
Response(op, status, body) == [op |-> op, status |-> status, body |-> body]
Failure(message) == [error |-> message]
Array(s) == [array |-> s]

\* { ...row, tags: row.tags ? JSON.parse(row.tags) : [] }
LinkObject(row) == [row EXCEPT !.tags = ReadTags(row)]

\* The object POST /api/links answers with; JSON drops an undefined notes or folder.
Echo(body) ==
    [f \in (DOMAIN body \cap {"id", "url", "notes", "folder", "created"}) \cup {"tags"}
        |-> IF f = "tags" THEN OrNoTags(body) ELSE body[f]]

\* GET /api/links : the responses the handler may give over a table with `rows`.
GetLinksResponses(rows) ==
    IF "links" \notin tables
    THEN {Response("GET /api/links", 500, Failure(UndefinedTable))}
    ELSE {Response("GET /api/links", 200, Array([i \in DOMAIN s |-> LinkObject(s[i])])) :
            s \in SelectLinksOrdered(rows)}

\* GET /api/links/:id
GetLinkResponses(rows, id) ==
    IF "links" \notin tables
    THEN {Response("GET /api/links/:id", 500, Failure(UndefinedTable))}
    ELSE IF SelectLink(rows, id) = {}
    THEN {Response("GET /api/links/:id", 404, Failure("Link not found"))}
    ELSE {Response("GET /api/links/:id", 200, LinkObject(r)) : r \in SelectLink(rows, id)}

\* Mutant of MissingRequired: the keys tested for presence, not for truth.
MissingRequiredPresence(body) ==
    ~(Has(body, "id") /\ Has(body, "url") /\ Has(body, "created"))

\* if (!id || !url || !created)
MissingRequired(body) ==
    ~(Truthy(body, "id") /\ Truthy(body, "url") /\ Truthy(body, "created"))

\* POST /api/links
PostLinkResult(body) ==
    IF MissingRequired(body)
    THEN [resp |-> Response("POST /api/links", 400, Failure("Missing required fields")),
          rows |-> links]
    ELSE LET q == InsertLink([id |-> body.id, url |-> body.url,
                              notes |-> OrEmpty(body, "notes"),
                              folder |-> OrEmpty(body, "folder"),
                              tags |-> JSONstringify(OrNoTags(body)),
                              created |-> body.created])
         IN  IF q.err # NoError
             THEN [resp |-> Response("POST /api/links", 500, Failure(q.err)),
                   rows |-> q.rows]
             ELSE [resp |-> Response("POST /api/links", 201, Echo(body)),
                   rows |-> q.rows]

\* PUT /api/links/:id
PutLinkResult(id, body) ==
    LET q == UpdateLink(UrlParam(body), OrEmpty(body, "notes"), OrEmpty(body, "folder"),
                        JSONstringify(OrNoTags(body)), id)
    IN  IF q.err # NoError
        THEN [resp |-> Response("PUT /api/links/:id", 500, Failure(q.err)),
              rows |-> q.rows]
        ELSE IF q.rowCount = 0
        THEN [resp |-> Response("PUT /api/links/:id", 404, Failure("Link not found")),
              rows |-> q.rows]
        ELSE [resp |-> Response("PUT /api/links/:id", 200,
                                [message |-> "Link updated successfully"]),
              rows |-> q.rows]

\* DELETE /api/links/:id
DeleteLinkResult(id) ==
    LET q == DeleteLinkRow(id)
    IN  IF q.err # NoError
        THEN [resp |-> Response("DELETE /api/links/:id", 500, Failure(q.err)),
              rows |-> q.rows]
        ELSE IF q.rowCount = 0
        THEN [resp |-> Response("DELETE /api/links/:id", 404, Failure("Link not found")),
              rows |-> q.rows]
        ELSE [resp |-> Response("DELETE /api/links/:id", 200,
                                [message |-> "Link deleted successfully"]),
              rows |-> q.rows]

\* GET /api/folders
GetFoldersResponses ==
    IF "folders" \notin tables
    THEN {Response("GET /api/folders", 500, Failure(UndefinedTable))}
    ELSE {Response("GET /api/folders", 200, Array(s)) : s \in SelectFolderNames}

\* POST /api/folders
PostFolderResult(body) ==
    IF ~Truthy(body, "name")
    THEN [resp |-> Response("POST /api/folders", 400, Failure("Folder name is required")),
          rows |-> folders]
    ELSE LET q == InsertFolder(body.name)
         IN  IF q.err = NoError
             THEN [resp |-> Response("POST /api/folders", 201, [name |-> body.name]),
                   rows |-> q.rows]
             ELSE IF q.err = UniqueViolation
             THEN [resp |-> Response("POST /api/folders", 409,
                                     Failure("Folder already exists")),
                   rows |-> q.rows]
             ELSE [resp |-> Response("POST /api/folders", 500, Failure(q.err)),
                   rows |-> q.rows]

-----------------------------------------------------------------------------
(* Actions *)

\* initDatabase(), first await: CREATE TABLE IF NOT EXISTS links
CreateLinksTable ==
    /\ initPc = "links"
    /\ tables' = CreateTableIfNotExists("links")
    /\ initPc' = "folders"
    /\ UNCHANGED <<links, folders, resp, sentTags>>

\* initDatabase(), second await: CREATE TABLE IF NOT EXISTS folders
CreateFoldersTable ==
    /\ initPc = "folders"
    /\ tables' = CreateTableIfNotExists("folders")
    /\ initPc' = "done"
    /\ UNCHANGED <<links, folders, resp, sentTags>>

GetLinks ==
    /\ \E r \in GetLinksResponses(links) : resp' = r
    /\ UNCHANGED <<tables, links, folders, initPc>>

GetLink(id) ==
    /\ \E r \in GetLinkResponses(links, id) : resp' = r
    /\ UNCHANGED <<tables, links, folders, initPc>>

PostLink(body) ==
    /\ resp' = PostLinkResult(body).resp
    /\ links' = PostLinkResult(body).rows
    /\ UNCHANGED <<tables, folders, initPc>>

PutLink(id, body) ==
    /\ resp' = PutLinkResult(id, body).resp
    /\ links' = PutLinkResult(id, body).rows
    /\ UNCHANGED <<tables, folders, initPc>>

DeleteLink(id) ==
    /\ resp' = DeleteLinkResult(id).resp
    /\ links' = DeleteLinkResult(id).rows
    /\ UNCHANGED <<tables, folders, initPc>>

GetFolders ==
    /\ \E r \in GetFoldersResponses : resp' = r
    /\ UNCHANGED <<tables, links, folders, initPc>>

PostFolder(body) ==
    /\ resp' = PostFolderResult(body).resp
    /\ folders' = PostFolderResult(body).rows
    /\ UNCHANGED <<tables, links, initPc>>

\* GET /api/health (the timestamp is the wall clock, which is not modelled)
Health ==
    /\ resp' = Response("GET /api/health", 200, [status |-> "ok"])
    /\ UNCHANGED <<tables, links, folders, initPc>>


-----------------------------------------------------------------------------
(* The requests of the model *)

MaxTags == 2    \* longest tags list a request carries

Required == {"id", "url", "created"}
Optional == {"notes", "folder", "tags"}

Restrict(f, D) == [x \in D |-> f[x]]
SeqsUpTo(S, n) == UNION {[1..k -> S] : k \in 0..n}

LinkIds       == {"a", "b"}
CreatedValues == {<<"2">>, <<"1", "0">>}            \* "10" < "2" as text
FewTagLists   == {<<>>, << <<"t">> >>}
\* Tags with the characters JSON text gives a meaning to.
TagStrings    == {<<>>, <<"a", "]">>, <<"\"">>, <<"\\">>, <<",">>}
TagLists      == SeqsUpTo(TagStrings, MaxTags)

\* The empty value of a required field: '' for a string.
Blank(f) == IF f = "created" THEN <<>> ELSE ""

\* POST bodies that pass validation, with the optional keys of `choices`.
ValidPosts(ids, createds, choices, tagLists) ==
    {Restrict(r, Required \cup O) :
        r \in [id : ids, url : {"u"}, notes : {"n"}, folder : {"f"},
               tags : tagLists, created : createds],
        O \in choices}

\* POST bodies with one required field omitted or empty.
InvalidPosts(ids, createds) ==
    LET base == [id : ids, url : {"u"}, created : createds]
    IN  {Restrict(r, Required \ {f}) : r \in base, f \in Required}
        \cup {[r EXCEPT ![f] = Blank(f)] : r \in base, f \in Required}
        \cup {Restrict(r, {}) : r \in base}

\* PUT bodies: every choice of keys.
PutBodies(optional, tagLists) ==
    {Restrict(r, D) :
        r \in [url : {"v"}, notes : {"n"}, folder : {"f"}, tags : tagLists],
        D \in SUBSET ({"url"} \cup optional)}

FolderNames  == {<<"f">>, <<"g">>}
FolderBodies(names) ==
    {[name |-> n] : n \in names \cup {<<>>}} \cup {Restrict([name |-> <<>>], {})}

-----------------------------------------------------------------------------
(* History: the tags the client last wrote for each link *)

SentTagsOf(body) == IF "tags" \in DOMAIN body THEN body.tags ELSE <<>>
Record(id, list) == [x \in DOMAIN sentTags \cup {id} |-> IF x = id THEN list ELSE sentTags[x]]
Forget(id) == [x \in DOMAIN sentTags \ {id} |-> sentTags[x]]

-----------------------------------------------------------------------------
(* Specifications *)

NoResponse == Response("none", 0, [message |-> "no request yet"])

\* The process right after server.js has been evaluated: initDatabase() has been
\* called and not awaited, so its first query is pending, and app.listen() has
\* been called, so requests are accepted from here on.  The database is one
\* that holds no relation yet (the first start).
Init ==
    /\ tables = {}
    /\ links = {}
    /\ folders = EmptyBag
    /\ initPc = "links"
    /\ resp = NoResponse
    /\ sentTags = [x \in {} |-> <<>>]

ServeLinks(posts, puts, ids) ==
    \/ GetLinks /\ UNCHANGED sentTags
    \/ \E id \in ids : GetLink(id) /\ UNCHANGED sentTags
    \/ \E body \in posts :
          /\ PostLink(body)
          /\ sentTags' = IF resp'.status = 201
                         THEN Record(body.id, SentTagsOf(body)) ELSE sentTags
    \/ \E id \in ids, body \in puts :
          /\ PutLink(id, body)
          /\ sentTags' = IF resp'.status = 200
                         THEN Record(id, SentTagsOf(body)) ELSE sentTags
    \/ \E id \in ids :
          /\ DeleteLink(id)
          /\ sentTags' = IF resp'.status = 200 THEN Forget(id) ELSE sentTags

ServeFolders(posts) ==
    \/ GetFolders /\ UNCHANGED sentTags
    \/ \E body \in posts : PostFolder(body) /\ UNCHANGED sentTags
    \/ Health /\ UNCHANGED sentTags

InitDatabase == CreateLinksTable \/ CreateFoldersTable

\* The whole process: initDatabase() and any requests, in any order.
Posts == ValidPosts(LinkIds, CreatedValues, {{}, Optional}, FewTagLists)
             \cup InvalidPosts({"a"}, {<<"2">>})
Puts  == PutBodies(Optional, {<< <<"t">> >>})
Next ==
    \/ InitDatabase
    \/ ServeLinks(Posts, Puts, LinkIds)
    \/ ServeFolders(FolderBodies(FolderNames))
Spec == Init /\ [][Next]_vars

\* The same process, its link requests over one id and every tags list of TagLists.
TagPosts == ValidPosts({"a"}, {<<"2">>}, {{}, {"tags"}}, TagLists)
TagPuts  == PutBodies({"tags"}, TagLists)
NextTags ==
    \/ InitDatabase
    \/ ServeLinks(TagPosts, TagPuts, {"a"})
SpecTags == Init /\ [][NextTags]_vars

-----------------------------------------------------------------------------
(* Properties *)

Stored(rows, id) == \E r \in rows : r.id = id
IsEmptyText(v) == Len(v) = 0
Given(body, f, default) == IF f \in DOMAIN body THEN body[f] ELSE default

\* The links as a client reads them.
View(rows) == {LinkObject(r) : r \in rows}

\* a >= b in lexicographic order: b is a prefix of a, or a has the greater
\* character at the first place where they differ.
FirstDifference(a, b) ==
    CHOOSE k \in 1..(Len(a) + Len(b) + 1) :
        /\ \A i \in 1..(k - 1) : i <= Len(a) /\ i <= Len(b) /\ a[i] = b[i]
        /\ k > Len(a) \/ k > Len(b) \/ a[k] # b[k]
LexGeq(a, b) ==
    LET k == FirstDifference(a, b)
    IN  \/ k > Len(b)
        \/ k <= Len(a) /\ CharCode(a[k]) > CharCode(b[k])

\* C1: the tags list a client reads back for a link, by Get-by-id or by List,
\* is the list it last wrote for that link, element for element and in order;
\* tags omitted or empty on create read back as the empty list.
C1_TagsRoundTrip ==
    /\ (resp.op = "GET /api/links/:id" /\ resp.status = 200) =>
          /\ resp.body.id \in DOMAIN sentTags
          /\ resp.body.tags = sentTags[resp.body.id]
    /\ (resp.op = "GET /api/links" /\ resp.status = 200) =>
          \A i \in DOMAIN resp.body.array :
              /\ resp.body.array[i].id \in DOMAIN sentTags
              /\ resp.body.array[i].tags = sentTags[resp.body.array[i].id]

\* A link read back with a two-element list of tags made of JSON's own characters.
C1_Witness ==
    /\ resp.op = "GET /api/links/:id"
    /\ resp.status = 200
    /\ resp.body.tags = << <<"\\">>, <<"\"">> >>

\* What Update by id leaves of the links when each omitted key is written as
\* the empty string or the empty list.
Overwritten(rows, id, body) ==
    {IF o.id = id
     THEN [o EXCEPT !.url = Given(body, "url", ""), !.notes = Given(body, "notes", ""),
                    !.folder = Given(body, "folder", ""),
                    !.tags = Given(body, "tags", <<>>)]
     ELSE o : o \in View(rows)}

\* C2 as stated: Update by id on a stored link answers 200 for every body and
\* writes url, notes, folder and tags, an omitted one as the empty string
\* (url, notes, folder) or the empty list (tags).
C2_Original ==
    [][\A id \in LinkIds, body \in Puts :
          (PutLink(id, body) /\ Stored(links, id)) =>
              /\ resp'.status = 200
              /\ View(links') = Overwritten(links, id, body)]_vars

\* C2 amended: on a stored link, a body that carries url is answered 200 and
\* overwrites url, notes, folder and tags (omitted notes and folder as the empty
\* string, omitted tags as the empty list), id and created staying as they were;
\* a body without url is answered 500 and changes nothing.
C2_Amended ==
    \A id \in LinkIds, body \in Puts :
        Stored(links, id) =>
            IF "url" \in DOMAIN body
            THEN /\ PutLinkResult(id, body).resp.status = 200
                 /\ View(PutLinkResult(id, body).rows) = Overwritten(links, id, body)
            ELSE /\ PutLinkResult(id, body).resp.status = 500
                 /\ PutLinkResult(id, body).rows = links

\* An update answered 200 that left notes empty beside a written url and folder.
C2_Witness ==
    /\ resp.op = "PUT /api/links/:id"
    /\ resp.status = 200
    /\ \E r \in links : r.url = "v" /\ r.notes = "" /\ r.folder = "f"

\* C3: a Create-link request with id, url or created missing or empty is
\* answered 400 and the stored links are what they were.
C3_MissingFieldRejected ==
    /\ [](\A body \in Posts :
            (\E f \in Required : f \notin DOMAIN body \/ IsEmptyText(body[f])) =>
                /\ PostLinkResult(body).resp.status = 400
                /\ PostLinkResult(body).rows = links)
    /\ [][(resp'.op = "POST /api/links" /\ resp'.status = 400) => links' = links]_vars

C3_Witness ==
    /\ resp.op = "POST /api/links"
    /\ resp.status = 400
    /\ links # {}

\* C4 as stated: a Create-link request whose id is that of a stored link is
\* answered 500 and changes no link; no two rows ever share an id.
C4_Original ==
    /\ [][\A body \in Posts :
            (PostLink(body) /\ "id" \in DOMAIN body /\ Stored(links, body.id)) =>
                (resp'.status = 500 /\ links' = links)]_vars
    /\ [](\A r1, r2 \in links : r1.id = r2.id => r1 = r2)

\* C4 amended: a Create-link request that passes validation (id, url and
\* created present and not empty) and whose id is that of a stored link is
\* answered 500 and changes no link; no two rows ever share an id.
C4_Amended ==
    /\ \A body \in Posts :
          (/\ \A f \in Required : f \in DOMAIN body /\ ~IsEmptyText(body[f])
           /\ Stored(links, body.id)) =>
              /\ PostLinkResult(body).resp.status = 500
              /\ PostLinkResult(body).rows = links
    /\ \A r1, r2 \in links : r1.id = r2.id => r1 = r2

\* A create answered 500 while both ids are stored.
C4_Witness ==
    /\ resp.op = "POST /api/links"
    /\ resp.status = 500
    /\ Cardinality(links) = 2

\* C5: a Create-folder request with a non-empty name is answered 201, and the
\* name stored, exactly when no folder of that name is stored as its insert
\* executes, and 409 otherwise; no two folders ever share a name.
C5_FolderNameUnique ==
    /\ [][\A body \in FolderBodies(FolderNames) :
            (PostFolder(body) /\ "name" \in DOMAIN body /\ ~IsEmptyText(body.name)) =>
                IF CopiesIn(body.name, folders) = 0
                THEN resp'.status = 201 /\ CopiesIn(body.name, folders') = 1
                ELSE resp'.status = 409 /\ folders' = folders]_vars
    /\ [](\A n \in BagToSet(folders) : CopiesIn(n, folders) = 1)

\* C5 where table folders exists: what the handler then answers and stores.
C5_WithTable ==
    /\ "folders" \in tables =>
          \A body \in FolderBodies(FolderNames) :
              ("name" \in DOMAIN body /\ ~IsEmptyText(body.name)) =>
                  IF CopiesIn(body.name, folders) = 0
                  THEN /\ PostFolderResult(body).resp.status = 201
                       /\ CopiesIn(body.name, PostFolderResult(body).rows) = 1
                  ELSE /\ PostFolderResult(body).resp.status = 409
                       /\ PostFolderResult(body).rows = folders
    /\ \A n \in BagToSet(folders) : CopiesIn(n, folders) = 1

\* C6: an Update-by-id request whose id no stored link has is answered 404,
\* whatever its body, and leaves links, folders and tables as they were.
C6_UpdateUnknownId ==
    [][\A id \in LinkIds, body \in Puts :
          (PutLink(id, body) /\ ~Stored(links, id)) =>
              /\ resp'.status = 404
              /\ links' = links
              /\ folders' = folders
              /\ tables' = tables]_vars

\* C6 where table links exists: what the handler then answers and stores.
C6_WithTable ==
    "links" \in tables =>
        \A id \in LinkIds, body \in Puts :
            ~Stored(links, id) =>
                /\ PutLinkResult(id, body).resp.status = 404
                /\ PutLinkResult(id, body).rows = links

\* C7: once a link is created from id, url and created alone, fetching its id
\* answers 200 with that id, url and created, tags the empty list, and notes
\* and folder the empty string.
C7_CreateDefaults ==
    \A body \in Posts :
        (DOMAIN body = Required /\ PostLinkResult(body).resp.status = 201) =>
            GetLinkResponses(PostLinkResult(body).rows, body.id) =
                {[op |-> "GET /api/links/:id", status |-> 200,
                  body |-> [id |-> body.id, url |-> body.url, created |-> body.created,
                            tags |-> <<>>, notes |-> "", folder |-> ""]]}

\* A fetched link that was created (url "u") without notes, folder and tags.
C7_Witness ==
    /\ resp.op = "GET /api/links/:id"
    /\ resp.status = 200
    /\ resp.body = [id |-> "a", url |-> "u", created |-> <<"2">>,
                    tags |-> <<>>, notes |-> "", folder |-> ""]

\* C8: Delete by id is answered 200 when a link of that id is stored, and then
\* that link alone is gone (a fetch or a second delete of the id answers 404);
\* it is answered 404, and nothing is removed, when none is stored.
C8_DeleteOnceThenNotFound ==
    [][\A id \in LinkIds :
          DeleteLink(id) =>
              IF Stored(links, id)
              THEN /\ resp'.status = 200
                   /\ links' = {r \in links : r.id # id}
                   /\ \A g \in GetLinkResponses(links', id) : g.status = 404
              ELSE /\ resp'.status = 404
                   /\ links' = links]_vars

\* C8 where table links exists: what the handler then answers and stores.
C8_WithTable ==
    "links" \in tables =>
        \A id \in LinkIds :
            IF Stored(links, id)
            THEN /\ DeleteLinkResult(id).resp.status = 200
                 /\ DeleteLinkResult(id).rows = {r \in links : r.id # id}
                 /\ \A g \in GetLinkResponses(DeleteLinkResult(id).rows, id) :
                       g.status = 404
            ELSE /\ DeleteLinkResult(id).resp.status = 404
                 /\ DeleteLinkResult(id).rows = links

\* C9: List-links answers with the stored links, each once, no link before one
\* whose created is lexicographically greater.
C9_ListNewestFirst ==
    (resp.op = "GET /api/links" /\ resp.status = 200) =>
        LET listed == resp.body.array
        IN  /\ Len(listed) = Cardinality(links)
            /\ {listed[i] : i \in DOMAIN listed} = View(links)
            /\ \A i \in 1..(Len(listed) - 1) :
                  LexGeq(listed[i].created, listed[i + 1].created)

\* A listing of two links, "2" before "10".
C9_Witness ==
    /\ resp.op = "GET /api/links"
    /\ resp.status = 200
    /\ Len(resp.body.array) = 2
    /\ resp.body.array[1].created = <<"2">>
    /\ resp.body.array[2].created = <<"1", "0">>

\* C10: no request is failed with 500 because a table does not exist: every
\* handler's statement executes after both tables have been created.
C10_TablesBeforeRequests ==
    resp.status = 500 => resp.body.error # UndefinedTable

=============================================================================
